---- MODULE Spec2Model ----
(***************************************************************************)
(* The order-confirmation saga of LOCLY: the orchestrator (ConfirmOrder),  *)
(* the match ledger (MatchMongoRecorderAdapter), the Stripe checkout       *)
(* webhook dispatcher (StripeCheckoutWebhook), the shipment-info finalizer *)
(* (SubmitShipmentInfo) and the customer repository                        *)
(* (CustomerMongoRepositoryAdapter).                                       *)
(*                                                                         *)
(* Every "await" of the source is a point where other requests can run, so *)
(* an operation is split into steps at the awaits that separate a read     *)
(* from the write that depends on it.                                      *)
(***************************************************************************)
EXTENDS Integers, Sequences, FiniteSets, TLC

VARIABLES
    orders,       \* the orders collection: order id -> order document
    hostOrders,   \* host id -> the host's list of order ids
    matches,      \* the committed documents of the matches collection
    everRecorded, \* ids of the matches whose recording transaction committed
    idCounter,    \* number of EntityIds generated so far
    attempts,     \* ConfirmOrder.execute invocations
    sessions,     \* Stripe checkout sessions that exist at the gateway
    deliveries,   \* checkout.session.completed webhook invocations
    calls,        \* SubmitShipmentInfo.execute invocations
    customers,    \* the customers collection: customer id -> customer document
    repoCalls     \* the calls made to a repository adapter, with their results

\* the state of the repository adapters exercised on their own
repositoryVars == <<customers, repoCalls>>

vars == <<orders, hostOrders, matches, everRecorded, idCounter, attempts,
          sessions, deliveries, calls, customers, repoCalls>>

(***************************************************************************)
(* Bounds of the model.                                                    *)
(***************************************************************************)
MaxAttempts == 2
MaxDeliveries == 2
MaxCalls == 2
MaxItems == 2
MaxRepoCalls == 3

(***************************************************************************)
(* Identifiers and values.                                                 *)
(***************************************************************************)
OrderIds == {"o1", "o2"}
\* order ids a request can name: the stored orders and one unknown id
RequestOrderIds == OrderIds \cup {"o9"}
HostIds == {"h1", "h2"}
NoHost == "none"
NoUrl == "none"
NoId == "none"

Drafted == "drafted"
Confirmed == "confirmed"
Finalized == "finalized"

FeeService == "service"
FeeShipment == "shipment"
NoFeeType == "none"

\* unit_amount of the service fee line item, in cents
ServiceFee == 10000

\* new EntityId(): the n-th identifier generated
EntityId(n) == "m" \o ToString(n)

MatchIds == {EntityId(n) : n \in 1..MaxAttempts}

(***************************************************************************)
(* Items and the completeness filter of getUnfinalizedItems.               *)
(***************************************************************************)
ItemIds == [n \in 1..MaxItems |-> "i" \o ToString(n)]

PhotoLists == {<<>>, <<"p1">>}

ItemStates == [receivedDate : BOOLEAN, photos : PhotoLists]

\* item lists of length n, the k-th item carrying the k-th item id
ItemListsOfLen(n) ==
    {[k \in 1..n |-> [id |-> ItemIds[k],
                      receivedDate |-> f[k].receivedDate,
                      photos |-> f[k].photos]] : f \in [1..n -> ItemStates]}

ItemLists == UNION {ItemListsOfLen(n) : n \in 0..MaxItems}

\* the filter callback: !(receivedDate && photos.length), the mutant checks
\* the received date only
NotFinalized_Mutant(item) == ~item.receivedDate
NotFinalized(item) == ~(item.receivedDate /\ Len(item.photos) # 0)

(***************************************************************************)
(* The order store.                                                        *)
(***************************************************************************)
\* orderRepository.findOrder(filter): the stored orders that match every
\* property of the filter (none: the repository throws "not found")
FindOrder(filter) ==
    {id \in DOMAIN orders :
        \A f \in DOMAIN filter :
            IF f = "orderId" THEN id = filter.orderId
            ELSE orders[id][f] = filter[f]}

\* orderRepository.setProperties({ orderId }, properties): $set of the given
\* properties on the order with that id
SetProperties(os, orderId, properties) ==
    [id \in DOMAIN os |->
        IF id = orderId
        THEN [f \in DOMAIN os[id] |->
                 IF f \in DOMAIN properties THEN properties[f] ELSE os[id][f]]
        ELSE os[id]]

(***************************************************************************)
(* SubmitShipmentInfo.                                                     *)
(***************************************************************************)
ShipmentInfos ==
    {[totalWeight |-> 3, shipmentCost |-> 40, calculatorResultUrl |-> "url1"],
     [totalWeight |-> 5, shipmentCost |-> 60, calculatorResultUrl |-> NoUrl],
     [totalWeight |-> 5, shipmentCost |-> 60, calculatorResultUrl |-> ""]}

FinalizeRequests ==
    [orderId : RequestOrderIds, hostId : HostIds, info : ShipmentInfos]

\* truthiness of an optional string: undefined and "" are falsy
Truthy(url) == url # NoUrl /\ url # ""

\* order.items.filter(...), in item order; the mutant stops at the first hit
\* (find in place of filter)
GetUnfinalizedItems_Mutant(order) ==
    LET all == SelectSeq(order.items, NotFinalized)
    IN  IF all = <<>> THEN <<>> ELSE <<all[1]>>
GetUnfinalizedItems(order) == SelectSeq(order.items, NotFinalized)

\* notFinalizedItems.map(({ id }) => id)
ItemIdsOf(items) == [k \in 1..Len(items) |-> items[k].id]

\* the filter of the lookup in getUnfinalizedItems; the mutant leaves the
\* host out
FinalizeFilter_Mutant(req) ==
    [orderId |-> req.orderId, status |-> Confirmed]
FinalizeFilter(req) ==
    [orderId |-> req.orderId, status |-> Confirmed, hostId |-> req.hostId]

\* the properties finalizeOrder sets; one mutant sets the calculator url
\* whether or not one was submitted, the other names the wrong status
FinalizeProperties_MutantUrl(info) ==
    [totalWeight |-> info.totalWeight,
     finalShipmentCost |-> info.shipmentCost,
     status |-> Finalized,
     calculatorResultUrl |-> info.calculatorResultUrl]
FinalizeProperties_Mutant(info) ==
    [totalWeight |-> info.totalWeight,
     finalShipmentCost |-> info.shipmentCost,
     status |-> Drafted]
    @@ (IF Truthy(info.calculatorResultUrl)
        THEN [calculatorResultUrl |-> info.calculatorResultUrl]
        ELSE <<>>)
FinalizeProperties(info) ==
    [totalWeight |-> info.totalWeight,
     finalShipmentCost |-> info.shipmentCost,
     status |-> Finalized]
    @@ (IF Truthy(info.calculatorResultUrl)
        THEN [calculatorResultUrl |-> info.calculatorResultUrl]
        ELSE <<>>)

\* if (notFinalizedItems.length): the finalize is refused; the mutant
\* refuses from length 0 on
HasNotFinalizedItems_Mutant(notFinalizedItems) == Len(notFinalizedItems) >= 0
HasNotFinalizedItems(notFinalizedItems) == Len(notFinalizedItems) # 0

IdleCall ==
    [pc |-> "idle", req |-> CHOOSE r \in FinalizeRequests : TRUE,
     found |-> {}, result |-> "none", notFinalizedItemIds |-> <<>>]

\* finalizeOrder up to the end of getUnfinalizedItems: the filtered lookup
\* (made outside the transaction session) and the completeness check
FinalizeCheck(c, req) ==
    /\ calls[c].pc = "idle"
    /\ c > 1 => calls[c - 1].pc # "idle"
    /\ LET found == FindOrder(FinalizeFilter(req))
           notFinalizedItems ==
               IF found = {} THEN <<>>
               ELSE GetUnfinalizedItems(orders[req.orderId])
       IN  calls' = [calls EXCEPT ![c] =
               [pc |-> IF found # {} /\ ~HasNotFinalizedItems(notFinalizedItems)
                       THEN "checked" ELSE "done",
                req |-> req,
                found |-> {orders[id] : id \in found},
                result |-> IF found = {} THEN "OrderNotFound"
                           ELSE IF HasNotFinalizedItems(notFinalizedItems)
                                THEN "IncompleteItems" ELSE "none",
                notFinalizedItemIds |-> ItemIdsOf(notFinalizedItems)]]
    /\ UNCHANGED <<orders, hostOrders, matches, everRecorded, idCounter,
                   attempts, sessions, deliveries>>
    /\ UNCHANGED repositoryVars

\* the setProperties call of finalizeOrder and the commit of its transaction
FinalizeUpdate(c) ==
    /\ calls[c].pc = "checked"
    /\ orders' = SetProperties(orders, calls[c].req.orderId,
                               FinalizeProperties(calls[c].req.info))
    /\ calls' = [calls EXCEPT ![c].pc = "done", ![c].result = "ok"]
    /\ UNCHANGED <<hostOrders, matches, everRecorded, idCounter, attempts,
                   sessions, deliveries>>
    /\ UNCHANGED repositoryVars

(***************************************************************************)
(* The host matcher.                                                       *)
(***************************************************************************)
originCountriesAvailable == {"US", "CA"}
destinationCountriesAvailable == {"DE"}

hosts == [h \in HostIds |-> [country |-> "US", available |-> TRUE]]

\* hostMatcher.checkServiceAvailability(originCountry, destinationCountry)
CheckServiceAvailability(originCountry, destinationCountry) ==
    /\ originCountry \in originCountriesAvailable
    /\ destinationCountry \in destinationCountriesAvailable

\* hostMatcher.matchHost(originCountry): the hosts it may return (none: throws)
MatchHost(originCountry) ==
    {h \in HostIds : hosts[h].available /\ hosts[h].country = originCountry}

(***************************************************************************)
(* ConfirmOrder: the orchestrator.                                         *)
(***************************************************************************)
NoMetadata == [feeType |-> NoFeeType, matchId |-> NoId]

\* the argument of stripe.checkout.sessions.create
CheckoutSessionParams(matchId) ==
    [client_reference_id |-> matchId,
     unit_amount |-> ServiceFee,
     metadata |-> NoMetadata]

IdleAttempt ==
    [pc |-> "idle", orderId |-> NoId, matchId |-> NoId, pending |-> {},
     result |-> "none", events |-> <<>>, matchHostCalled |-> FALSE]

\* the catch of serviceAvailabileOrThrow: the rejection is announced and the
\* error thrown again; the mutant announces the other rejection
ServiceRejection_Mutant ==
    [result |-> "ServiceUnavailable",
     events |-> <<"order.rejected.host_availability">>]
ServiceRejection ==
    [result |-> "ServiceUnavailable",
     events |-> <<"order.rejected.service_availability">>]

\* the catch of matchOrderToHost: the rejection is announced and the error
\* thrown again; the mutant swallows the error without announcing it
HostRejection_Mutant == [result |-> "NoHostAvailable", events |-> <<>>]
HostRejection ==
    [result |-> "NoHostAvailable",
     events |-> <<"order.rejected.host_availability">>]

\* what matchOrderToHost writes to the order it matched: nothing, the host is
\* kept in the match alone until the payment is confirmed; the mutant stores
\* the host on the order before the payment
OrderPropertiesOnMatch_Mutant(hostId) == [hostId |-> hostId]
OrderPropertiesOnMatch(hostId) == <<>>

\* session.withTransaction when its callback throws or the commit fails: the
\* transaction is aborted and its writes are dropped; the mutant lets them
\* through
AbortTransaction_Mutant(ledger, pending) == ledger \cup pending
AbortTransaction(ledger, pending) == ledger

\* session.withTransaction when the callback returned: the writes made with
\* the session become visible
CommitTransaction(ledger, pending) == ledger \cup pending

\* matchOrderAndCheckout up to the return of matchOrderToHost: load the
\* order, check the service availability, match a host, record the match
\* inside the session's transaction
ConfirmMatch(a, orderId) ==
    /\ attempts[a].pc = "idle"
    /\ a > 1 => attempts[a - 1].pc # "idle"
    /\ LET found == FindOrder([orderId |-> orderId])
           fail(rejection, matchHostCalled) ==
               /\ attempts' = [attempts EXCEPT ![a] =
                      [IdleAttempt EXCEPT
                          !.pc = "done", !.orderId = orderId,
                          !.result = rejection.result,
                          !.events = rejection.events,
                          !.matchHostCalled = matchHostCalled]]
               /\ UNCHANGED idCounter
       IN  IF found = {}
           THEN fail([result |-> "OrderNotFound", events |-> <<>>], FALSE)
           ELSE IF ~CheckServiceAvailability(
                       orders[orderId].originCountry,
                       orders[orderId].destinationCountry)
           THEN fail(ServiceRejection, FALSE)
           ELSE IF MatchHost(orders[orderId].originCountry) = {}
           THEN fail(HostRejection, TRUE)
           ELSE \E matchedHost \in MatchHost(orders[orderId].originCountry) :
                  LET matchId == EntityId(idCounter + 1)
                  IN  /\ idCounter' = idCounter + 1
                      /\ attempts' = [attempts EXCEPT ![a] =
                             [IdleAttempt EXCEPT
                                 !.pc = "matched",
                                 !.orderId = orderId,
                                 !.matchId = matchId,
                                 !.matchHostCalled = TRUE,
                                 !.pending = {[id |-> matchId,
                                               orderId |-> orderId,
                                               hostId |-> matchedHost]}]]
    /\ UNCHANGED <<orders, hostOrders, matches, everRecorded, sessions,
                   deliveries, calls>>
    /\ UNCHANGED repositoryVars

\* stripe.checkout.sessions.create resolves, then order.awaiting_payment is
\* emitted; the callback of withTransaction has not returned yet
CheckoutCreated(a) ==
    /\ attempts[a].pc = "matched"
    /\ sessions' = sessions \cup
           {[id |-> a] @@ CheckoutSessionParams(attempts[a].matchId)}
    /\ attempts' = [attempts EXCEPT
           ![a].pc = "checkedOut",
           ![a].events = Append(@, "order.awaiting_payment")]
    /\ UNCHANGED <<orders, hostOrders, matches, everRecorded, idCounter,
                   deliveries, calls>>
    /\ UNCHANGED repositoryVars

\* stripe.checkout.sessions.create rejects: the callback throws
CheckoutFailed(a) ==
    /\ attempts[a].pc = "matched"
    /\ matches' = AbortTransaction(matches, attempts[a].pending)
    /\ attempts' = [attempts EXCEPT ![a].pc = "done", ![a].pending = {},
                                    ![a].result = "CheckoutFailed"]
    /\ UNCHANGED <<orders, hostOrders, everRecorded, idCounter, sessions,
                   deliveries, calls>>
    /\ UNCHANGED repositoryVars

\* the callback returned and the transaction commits: execute returns the
\* checkout id
Commit(a) ==
    /\ attempts[a].pc = "checkedOut"
    /\ matches' = CommitTransaction(matches, attempts[a].pending)
    /\ everRecorded' = everRecorded \cup {m.id : m \in attempts[a].pending}
    /\ orders' = LET match == CHOOSE m \in attempts[a].pending : TRUE
                  IN  SetProperties(orders, match.orderId,
                                    OrderPropertiesOnMatch(match.hostId))
    /\ attempts' = [attempts EXCEPT ![a].pc = "done", ![a].pending = {},
                                    ![a].result = "ok"]
    /\ UNCHANGED <<hostOrders, idCounter, sessions, deliveries, calls>>
    /\ UNCHANGED repositoryVars

\* the callback returned but the commit fails: execute throws
CommitFailed(a) ==
    /\ attempts[a].pc = "checkedOut"
    /\ matches' = AbortTransaction(matches, attempts[a].pending)
    /\ attempts' = [attempts EXCEPT ![a].pc = "done", ![a].pending = {},
                                    ![a].result = "CommitFailed"]
    /\ UNCHANGED <<orders, hostOrders, everRecorded, idCounter, sessions,
                   deliveries, calls>>
    /\ UNCHANGED repositoryVars

(***************************************************************************)
(* The match ledger: MatchMongoRecorderAdapter.retrieveAndDeleteMatch.     *)
(***************************************************************************)
\* matchCollection.findOne({ _id: matchId }): the document, or none (null)
FindOne(ledger, matchId) == {m \in ledger : m.id = matchId}

\* matchCollection.deleteOne({ _id: matchId }); the mutant deletes every
\* document of the collection
DeleteOne_Mutant(ledger, matchId) == {}
DeleteOne(ledger, matchId) == {m \in ledger : m.id # matchId}

\* return mongoDocumentToMatch(matchDocument): the document found is mapped
\* with no check for null, so a missing document ends in the TypeError of
\* reading the fields of null, not in an entity-not-found Exception
RetrieveResult(found) == IF found = {} THEN "TypeError" ELSE "ok"

(***************************************************************************)
(* The match ledger called on its own: MatchMongoRecorderAdapter.          *)
(***************************************************************************)
\* the document of a match: its _id is the id of the order, the key
\* findMatch reads it by
MatchToMongoDocument(orderId, hostId) ==
    [id |-> orderId, orderId |-> orderId, hostId |-> hostId]

\* matchCollection.insertOne(document): the unique index on _id rejects a
\* second document with the same _id (the duplicate-key error of the
\* driver, which recordMatch lets through) and the collection is as it was;
\* one mutant inserts with no index to reject it, the other replaces the
\* document that is there
InsertOne_MutantNoIndex(ledger, document) ==
    [ledger |-> ledger \cup {document}, result |-> "ok"]
InsertOne_Mutant(ledger, document) ==
    [ledger |-> DeleteOne(ledger, document.id) \cup {document},
     result |-> "ok"]
InsertOne(ledger, document) ==
    IF FindOne(ledger, document.id) # {}
    THEN [ledger |-> ledger, result |-> "DuplicateMatch"]
    ELSE [ledger |-> ledger \cup {document}, result |-> "ok"]

\* ids a caller of the ledger can ask for: of the orders, and one generated
\* by the orchestrator
LedgerMatchIds == OrderIds \cup {EntityId(1)}

\* recordMatch(orderId, hostId): const matchId = orderId; insertOne; return
\* matchId
RecordMatch(orderId, hostId) ==
    /\ Len(repoCalls) < MaxRepoCalls
    /\ LET matchId == orderId
           inserted == InsertOne(matches,
                                 MatchToMongoDocument(orderId, hostId))
       IN  /\ matches' = inserted.ledger
           /\ repoCalls' = Append(repoCalls,
                  [op |-> "recordMatch", orderId |-> orderId,
                   hostId |-> hostId,
                   matchId |-> IF inserted.result = "ok" THEN matchId
                               ELSE NoId,
                   result |-> inserted.result])
    /\ UNCHANGED <<orders, hostOrders, everRecorded, idCounter, attempts,
                   sessions, deliveries, calls, customers>>

\* retrieveAndDeleteMatch(matchId): findOne, deleteOne, return the match of
\* the document found
RetrieveAndDeleteMatch(matchId) ==
    /\ Len(repoCalls) < MaxRepoCalls
    /\ LET found == FindOne(matches, matchId)
       IN  /\ matches' = DeleteOne(matches, matchId)
           /\ repoCalls' = Append(repoCalls,
                  [op |-> "retrieveAndDeleteMatch",
                   orderId |-> IF found = {} THEN NoId
                               ELSE (CHOOSE m \in found : TRUE).orderId,
                   hostId |-> IF found = {} THEN NoHost
                              ELSE (CHOOSE m \in found : TRUE).hostId,
                   matchId |-> matchId,
                   result |-> RetrieveResult(found)])
    /\ UNCHANGED <<orders, hostOrders, everRecorded, idCounter, attempts,
                   sessions, deliveries, calls, customers>>

\* findMatch(orderId, hostId): findOne({ _id: orderId, hostId }), an
\* entity-not-found Exception when there is none
FindMatch(orderId, hostId) ==
    /\ Len(repoCalls) < MaxRepoCalls
    /\ LET found == {m \in matches : m.id = orderId /\ m.hostId = hostId}
       IN  repoCalls' = Append(repoCalls,
               [op |-> "findMatch", orderId |-> orderId, hostId |-> hostId,
                matchId |-> IF found = {} THEN NoId ELSE orderId,
                result |-> IF found = {} THEN "EntityNotFound" ELSE "ok"])
    /\ UNCHANGED <<orders, hostOrders, matches, everRecorded, idCounter,
                   attempts, sessions, deliveries, calls, customers>>

(***************************************************************************)
(* The customer repository: CustomerMongoRepositoryAdapter, in its two     *)
(* versions.                                                               *)
(***************************************************************************)
CustomerIds == {"c1", "c2"}
\* customer ids a request can name: the stored customers and one unknown id
RequestCustomerIds == CustomerIds \cup {"c9"}

\* a customer as CreateCustomer stores it, and one that has an order already
InitCustomers ==
    [c \in CustomerIds |->
        [orderIds |-> IF c = "c2" THEN <<"o2">> ELSE <<>>,
         addresses |-> <<"a1">>]]

\* $push of a value to a field of a document: appended to the array, which
\* is created when the document has no such field
Push(document, field, value) ==
    IF field \in DOMAIN document
    THEN [document EXCEPT ![field] = Append(@, value)]
    ELSE document @@ (field :> <<value>>)

\* a condition on the fields of an array element: an element that is an id,
\* not a document, has no fields to match
ElementMatches(element, condition) == FALSE

\* $pull from a field of a document of the elements that match a condition:
\* a document without such a field is left as it is
Pull(document, field, condition) ==
    IF field \in DOMAIN document
    THEN [document EXCEPT ![field] =
             SelectSeq(@, LAMBDA e : ~ElementMatches(e, condition))]
    ELSE document

\* updateQuery of addOrRemoveEntityToArrayProp: the key of the $push is the
\* literal name prop, not the property the caller named; the $pull has the
\* operator $elemMatch where the field belongs
UpdateQuery(action, prop, entity) ==
    IF action = "add"
    THEN [operator |-> "$push", field |-> "prop", argument |-> entity]
    ELSE [operator |-> "$pull", field |-> "$elemMatch",
          argument |-> [prop |-> entity]]

\* customerCollection.updateOne(filter, update): the collection after it and
\* the counts it reports
UpdateOne(collection, customerId, update) ==
    IF customerId \notin DOMAIN collection
    THEN [collection |-> collection, matchedCount |-> 0, modifiedCount |-> 0]
    ELSE LET document == collection[customerId]
             updated == IF update.operator = "$push"
                        THEN Push(document, update.field, update.argument)
                        ELSE Pull(document, update.field, update.argument)
         IN  [collection |-> [collection EXCEPT ![customerId] = updated],
              matchedCount |-> 1,
              modifiedCount |-> IF updated = document THEN 0 ELSE 1]

\* mongoDocumentToCustomer: the fields of a customer, read from its document
MongoDocumentToCustomer(document) ==
    [orderIds |-> document.orderIds, addresses |-> document.addresses]

\* findCustomer: the customer stored under the id, if any
FindCustomer(collection, customerId) ==
    IF customerId \in DOMAIN collection
    THEN [result |-> "ok",
          customer |-> MongoDocumentToCustomer(collection[customerId])]
    ELSE [result |-> "NotFound",
          customer |-> [orderIds |-> <<>>, addresses |-> <<>>]]

\* the document a filter on the customer id selects, empty when there is none
DocumentOf(collection, customerId) ==
    IF customerId \in DOMAIN collection THEN collection[customerId] ELSE <<>>

\* addOrRemoveEntityToArrayProp(action, filter, prop, entity): updateOne,
\* then expectOnlySingleResult([matchedCount, modifiedCount])
AddOrRemoveEntityToArrayProp(op, action, customerId, prop, entity) ==
    /\ Len(repoCalls) < MaxRepoCalls
    /\ LET updated == UpdateOne(customers, customerId,
                                UpdateQuery(action, prop, entity))
       IN  /\ customers' = updated.collection
           /\ repoCalls' = Append(repoCalls,
                  [op |-> op, customerId |-> customerId, orderId |-> entity,
                   before |-> DocumentOf(customers, customerId),
                   result |-> IF /\ updated.matchedCount = 1
                                 /\ updated.modifiedCount = 1
                              THEN "ok" ELSE "error"])
    /\ UNCHANGED <<orders, hostOrders, matches, everRecorded, idCounter,
                   attempts, sessions, deliveries, calls>>

\* addOrder(filter, orderId)
AddOrder(customerId, orderId) ==
    AddOrRemoveEntityToArrayProp("addOrder", "add", customerId, "orderIds",
                                 orderId)

\* removeOrder(filter, orderId)
RemoveOrder(customerId, orderId) ==
    AddOrRemoveEntityToArrayProp("removeOrder", "remove", customerId,
                                 "orderIds", orderId)

\* addOrderToCustomer({ id, customerId }) of the order module's adapter:
\* updateOne({ _id }, { $push: { orderIds: id } }), its counts not looked at
AddOrderToCustomer(customerId, orderId) ==
    /\ Len(repoCalls) < MaxRepoCalls
    /\ LET updated == UpdateOne(customers, customerId,
                          [operator |-> "$push", field |-> "orderIds",
                           argument |-> orderId])
       IN  /\ customers' = updated.collection
           /\ repoCalls' = Append(repoCalls,
                  [op |-> "addOrderToCustomer", customerId |-> customerId,
                   orderId |-> orderId,
                   before |-> DocumentOf(customers, customerId),
                   result |-> "ok"])
    /\ UNCHANGED <<orders, hostOrders, matches, everRecorded, idCounter,
                   attempts, sessions, deliveries, calls>>

(***************************************************************************)
(* StripeCheckoutWebhook and the confirm-order completion handler.         *)
(***************************************************************************)
\* metadata of the checkout.session.completed events that can come in: of
\* a session the orchestrator created, or of any other sender
InboundMetadata ==
    {s.metadata : s \in sessions}
    \cup [feeType : {FeeService}, matchId : MatchIds]
    \cup [feeType : {FeeShipment, "unknown"}, matchId : {NoId}]

IdleDelivery ==
    [pc |-> "idle", metadata |-> NoMetadata, handler |-> "none",
     found |-> {}, consume |-> "none", result |-> "none"]

\* switch (webhookPayload.feeType); the mutant has the confirm-order case as
\* the default
Dispatch_Mutant(metadata) ==
    IF metadata.feeType = FeeShipment THEN "payShipment" ELSE "confirmOrder"
\* switch (webhookPayload.feeType)
Dispatch(metadata) ==
    IF metadata.feeType = FeeService THEN "confirmOrder"
    ELSE IF metadata.feeType = FeeShipment THEN "payShipment"
    ELSE "none"

\* the completion handler's reaction to the outcome of the consume: a
\* missing match is a no-op success, any other failure is the handler's
ConfirmOrderOutcome(consume) ==
    IF consume \in {"ok", "MatchNotFound"} THEN "ok" ELSE consume

\* StripeCheckoutWebhook.execute: route the event by its fee type
Receive(d, metadata) ==
    /\ deliveries[d].pc = "idle"
    /\ d > 1 => deliveries[d - 1].pc # "idle"
    /\ LET handler == Dispatch(metadata)
       IN  deliveries' = [deliveries EXCEPT ![d] =
               [IdleDelivery EXCEPT
                   !.pc = IF handler = "confirmOrder" THEN "confirming"
                          ELSE "done",
                   !.metadata = metadata,
                   !.handler = handler,
                   !.result = IF handler = "none"
                              THEN "UnrecognizedWebhookPayload"
                              ELSE IF handler = "payShipment" THEN "ok"
                              ELSE "none"]]
    /\ UNCHANGED <<orders, hostOrders, matches, everRecorded, idCounter,
                   attempts, sessions, calls>>
    /\ UNCHANGED repositoryVars

\* retrieveAndDeleteMatch, the findOne: read the match inside the handler's
\* transaction
ConfirmFind(d) ==
    /\ deliveries[d].pc = "confirming"
    /\ deliveries' = [deliveries EXCEPT
           ![d].pc = "found",
           ![d].found = FindOne(matches, deliveries[d].metadata.matchId)]
    /\ UNCHANGED <<orders, hostOrders, matches, everRecorded, idCounter,
                   attempts, sessions, calls>>
    /\ UNCHANGED repositoryVars

\* retrieveAndDeleteMatch, the deleteOne and the return, then the rest of
\* the handler: bind the host to the order, confirm it, append the order to
\* the host's list, commit. A document read here and deleted by another
\* transaction since is a write conflict: withTransaction runs the callback
\* again.
ConfirmComplete(d) ==
    /\ deliveries[d].pc = "found"
    /\ LET found == deliveries[d].found
           matchId == deliveries[d].metadata.matchId
           consume == RetrieveResult(found)
       IN  IF found # {} /\ ~(found \subseteq matches)
           THEN /\ deliveries' = [deliveries EXCEPT ![d].pc = "confirming",
                                                    ![d].found = {}]
                /\ UNCHANGED <<orders, hostOrders, matches>>
           ELSE /\ deliveries' = [deliveries EXCEPT
                       ![d].pc = "done",
                       ![d].consume = consume,
                       ![d].result = ConfirmOrderOutcome(consume)]
                /\ IF consume = "ok"
                   THEN LET match == CHOOSE m \in found : TRUE
                        IN  /\ matches' = DeleteOne(matches, matchId)
                            /\ orders' = SetProperties(orders, match.orderId,
                                   [hostId |-> match.hostId,
                                    status |-> Confirmed])
                            /\ hostOrders' = [hostOrders EXCEPT
                                   ![match.hostId] = Append(@, match.orderId)]
                   ELSE UNCHANGED <<orders, hostOrders, matches>>
    /\ UNCHANGED <<everRecorded, idCounter, attempts, sessions, calls>>
    /\ UNCHANGED repositoryVars

(***************************************************************************)
(* Initial states and specifications.                                      *)
(***************************************************************************)
CompleteItem == [id |-> ItemIds[1], receivedDate |-> TRUE, photos |-> <<"p1">>]

Order(status, hostId, originCountry, destinationCountry, items, info) ==
    [status |-> status,
     hostId |-> hostId,
     customerId |-> "c1",
     originCountry |-> originCountry,
     destinationCountry |-> destinationCountry,
     items |-> items,
     totalWeight |-> info.totalWeight,
     finalShipmentCost |-> info.shipmentCost,
     calculatorResultUrl |-> info.calculatorResultUrl]

\* the optional fields of an order that was not finalized
NoInfo == [totalWeight |-> 0, shipmentCost |-> 0, calculatorResultUrl |-> NoUrl]

InitProcesses ==
    /\ matches = {}
    /\ everRecorded = {}
    /\ idCounter = 0
    /\ attempts = [a \in 1..MaxAttempts |-> IdleAttempt]
    /\ sessions = {}
    /\ deliveries = [d \in 1..MaxDeliveries |-> IdleDelivery]
    /\ calls = [c \in 1..MaxCalls |-> IdleCall]
    /\ customers = InitCustomers
    /\ repoCalls = <<>>

\* two drafted orders: one that can be matched, and one that can be matched
\* as well or cannot (no host in its origin country, or a destination that is
\* not served)
Init ==
    /\ \E route \in {<<"US", "DE">>, <<"CA", "DE">>, <<"US", "XX">>} :
          orders = [id \in OrderIds |->
              IF id = "o1"
              THEN Order(Drafted, NoHost, "US", "DE", <<CompleteItem>>, NoInfo)
              ELSE Order(Drafted, NoHost, route[1], route[2],
                         <<CompleteItem>>, NoInfo)]
    /\ hostOrders = [h \in HostIds |-> <<>>]
    /\ InitProcesses

\* the requests to finalize drawn when the whole saga runs
SagaFinalizeRequests ==
    {r \in FinalizeRequests :
        r.orderId = "o1" /\ r.info.calculatorResultUrl = "url1"}

Next ==
    \/ \E a \in 1..MaxAttempts, orderId \in RequestOrderIds :
          ConfirmMatch(a, orderId)
    \/ \E a \in 1..MaxAttempts : CheckoutCreated(a)
    \/ \E a \in 1..MaxAttempts : CheckoutFailed(a)
    \/ \E a \in 1..MaxAttempts : Commit(a)
    \/ \E a \in 1..MaxAttempts : CommitFailed(a)
    \/ \E d \in 1..MaxDeliveries, metadata \in InboundMetadata :
          Receive(d, metadata)
    \/ \E d \in 1..MaxDeliveries : ConfirmFind(d)
    \/ \E d \in 1..MaxDeliveries : ConfirmComplete(d)
    \/ \E c \in 1..MaxCalls, req \in SagaFinalizeRequests :
          FinalizeCheck(c, req)
    \/ \E c \in 1..MaxCalls : FinalizeUpdate(c)

Spec == Init /\ [][Next]_vars

\* order o1 in any state the finalizer can meet, with any item list; order
\* o2 confirmed for host h2
InitFinalize ==
    /\ \E items \in ItemLists,
          state \in {<<Drafted, NoHost, NoInfo>>,
                     <<Confirmed, "h1", NoInfo>>,
                     <<Finalized, "h1",
                       [totalWeight |-> 3, shipmentCost |-> 40,
                        calculatorResultUrl |-> "url1"]>>} :
          /\ state[1] = Finalized => GetUnfinalizedItems([items |-> items]) = <<>>
          /\ orders = [id \in OrderIds |->
                IF id = "o1"
                THEN Order(state[1], state[2], "US", "DE", items, state[3])
                ELSE Order(Confirmed, "h2", "US", "DE", <<CompleteItem>>,
                           NoInfo)]
          /\ hostOrders = [h \in HostIds |->
                IF h = "h2" THEN <<"o2">>
                ELSE IF state[2] = "h1" THEN <<"o1">> ELSE <<>>]
    /\ InitProcesses

NextFinalize ==
    \/ \E c \in 1..MaxCalls, req \in FinalizeRequests : FinalizeCheck(c, req)
    \/ \E c \in 1..MaxCalls : FinalizeUpdate(c)

SpecFinalize == InitFinalize /\ [][NextFinalize]_vars

\* the repository adapters called on their own, one call after the other:
\* the saga is at rest
InitRepositories ==
    /\ orders = [id \in OrderIds |->
                    Order(Drafted, NoHost, "US", "DE", <<CompleteItem>>,
                          NoInfo)]
    /\ hostOrders = [h \in HostIds |-> <<>>]
    /\ InitProcesses

NextLedger ==
    \/ \E orderId \in OrderIds, hostId \in HostIds :
          RecordMatch(orderId, hostId)
    \/ \E matchId \in LedgerMatchIds : RetrieveAndDeleteMatch(matchId)
    \/ \E orderId \in OrderIds, hostId \in HostIds : FindMatch(orderId, hostId)

SpecLedger == InitRepositories /\ [][NextLedger]_vars

NextCustomer ==
    \/ \E customerId \in RequestCustomerIds, orderId \in OrderIds :
          AddOrder(customerId, orderId)
    \/ \E customerId \in RequestCustomerIds, orderId \in OrderIds :
          RemoveOrder(customerId, orderId)
    \/ \E customerId \in RequestCustomerIds, orderId \in OrderIds :
          AddOrderToCustomer(customerId, orderId)

SpecCustomer == InitRepositories /\ [][NextCustomer]_vars

(***************************************************************************)
(* Properties.                                                             *)
(***************************************************************************)
ConfirmDeliveries ==
    {d \in 1..MaxDeliveries : deliveries[d].handler = "confirmOrder"}

\* C1: of the consume calls made for one match id at most one succeeds, and
\* once one has succeeded every other call that has returned observed
\* MatchNotFound.
C1_ExactlyOnceConsume ==
    \A d1 \in ConfirmDeliveries, d2 \in ConfirmDeliveries :
        ( /\ d1 # d2
          /\ deliveries[d1].metadata.matchId = deliveries[d2].metadata.matchId
          /\ deliveries[d1].consume = "ok"
          /\ deliveries[d2].pc = "done" )
        => deliveries[d2].consume = "MatchNotFound"

\* the number of times x occurs in the list
Occurrences(list, x) == Cardinality({k \in 1..Len(list) : list[k] = x})

\* C2: of two deliveries of the same service-fee webhook, once one has
\* confirmed the order the other returns success without consuming anything,
\* and the order is in the host's list once.
C2_ReplayIsIdempotent ==
    \A d1 \in ConfirmDeliveries, d2 \in ConfirmDeliveries :
        ( /\ d1 # d2
          /\ deliveries[d1].metadata = deliveries[d2].metadata
          /\ deliveries[d1].consume = "ok"
          /\ deliveries[d2].pc = "done" )
        => /\ deliveries[d2].result = "ok"
           /\ deliveries[d2].consume # "ok"
           /\ \A m \in deliveries[d1].found :
                 Occurrences(hostOrders[m.hostId], m.orderId) = 1

\* C3: every checkout session that exists at the gateway carries the id of a
\* match whose recording transaction has committed.
C3_SessionOnlyForCommittedMatch ==
    \A s \in sessions : s.client_reference_id \in everRecorded

\* C4: once an attempt has returned the error of a failed checkout-session
\* request, the ledger holds no match of that attempt.
C4_FailedCheckoutLeavesNoMatch ==
    \A a \in 1..MaxAttempts :
        attempts[a].result = "CheckoutFailed" =>
            /\ attempts[a].pending = {}
            /\ FindOne(matches, attempts[a].matchId) = {}

C4_Witness ==
    \E a \in 1..MaxAttempts :
        /\ attempts[a].result = "CheckoutFailed"
        /\ attempts[a].matchId \in MatchIds

\* C5: every checkout session the orchestrator created carries the payload
\* {feeType: service, matchId} of the match the attempt recorded, so its
\* completion event is dispatched to the confirm-order handler.
C5_SessionCarriesServicePayload ==
    \A s \in sessions :
        /\ s.metadata.feeType = FeeService
        /\ s.metadata.matchId = attempts[s.id].matchId
        /\ Dispatch(s.metadata) = "confirmOrder"

\* the item lacks a received date or has no photo
Incomplete(item) == ~item.receivedDate \/ item.photos = <<>>

IncompleteItemIds(order) ==
    {order.items[k].id : k \in {j \in 1..Len(order.items) :
                                   Incomplete(order.items[j])}}

\* the step that takes call c through the lookup and the completeness check
CheckStep(c) == calls[c].pc = "idle" /\ calls'[c].pc # "idle"

\* the order the call names is stored, confirmed and assigned to the caller
Finalizable(req) ==
    /\ req.orderId \in DOMAIN orders
    /\ orders[req.orderId].status = Confirmed
    /\ orders[req.orderId].hostId = req.hostId

\* C6: for an order that is confirmed and assigned to the calling host,
\* finalize fails with IncompleteItems iff some item is incomplete, and
\* goes on to succeed, leaving the order finalized, iff every item is
\* complete.
C6_FinalizeGate ==
    /\ [][\A c \in 1..MaxCalls :
            (CheckStep(c) /\ Finalizable(calls'[c].req)) =>
               LET lacking == IncompleteItemIds(orders[calls'[c].req.orderId])
               IN  /\ calls'[c].result = "IncompleteItems" <=> lacking # {}
                   /\ calls'[c].pc = "checked" <=> lacking = {}]_vars
    /\ [][\A c \in 1..MaxCalls :
            calls[c].pc = "checked" =>
               /\ ENABLED FinalizeUpdate(c)
               /\ calls'[c] # calls[c] =>
                     /\ calls'[c].result = "ok"
                     /\ orders'[calls[c].req.orderId].status = Finalized]_vars

C6_Witness ==
    \E c1 \in 1..MaxCalls, c2 \in 1..MaxCalls :
        /\ calls[c1].result = "ok"
        /\ calls[c2].result = "IncompleteItems"

\* C7: a finalize that fails with IncompleteItems reports exactly the ids of
\* the incomplete items and leaves the order as it was: confirmed, with the
\* same weight, cost and calculator url; it never reaches the update.
C7_IncompleteItemsReported ==
    /\ [][\A c \in 1..MaxCalls :
            (CheckStep(c) /\ calls'[c].result = "IncompleteItems") =>
               LET id == calls'[c].req.orderId
                   reported == calls'[c].notFinalizedItemIds
               IN  /\ {reported[k] : k \in 1..Len(reported)}
                          = IncompleteItemIds(orders[id])
                   /\ Len(reported) = Cardinality(IncompleteItemIds(orders[id]))
                   /\ orders' = orders
                   /\ orders'[id].status = Confirmed]_vars
    /\ [](\A c \in 1..MaxCalls :
            calls[c].result = "IncompleteItems" => calls[c].pc = "done")

C7_Witness ==
    \E c \in 1..MaxCalls :
        /\ calls[c].result = "IncompleteItems"
        /\ Len(calls[c].notFinalizedItemIds) = 2
        /\ orders[calls[c].req.orderId].status = Confirmed

\* C8: a finalize reaches its update only when its lookup saw the order
\* confirmed and assigned to the caller; for a missing order, any other
\* status or any other host it fails with OrderNotFound and changes no order.
C8_FinalizeGuard ==
    [][\A c \in 1..MaxCalls :
          /\ (CheckStep(c) /\ ~Finalizable(calls'[c].req)) =>
                /\ calls'[c].result = "OrderNotFound"
                /\ calls'[c].pc = "done"
                /\ orders' = orders
          /\ (CheckStep(c) /\ calls'[c].result = "OrderNotFound") =>
                ~Finalizable(calls'[c].req)
          /\ (calls'[c].result = "ok" /\ calls[c].result # "ok") =>
                calls[c].pc = "checked"]_vars

C8_Witness ==
    \E c1 \in 1..MaxCalls, c2 \in 1..MaxCalls :
        /\ calls[c1].result = "ok"
        /\ calls[c2].result = "OrderNotFound"
        /\ calls[c2].req.orderId \in OrderIds
        /\ orders[calls[c2].req.orderId].status = Confirmed
        /\ orders[calls[c2].req.orderId].hostId # calls[c2].req.hostId

\* C9: once an order is finalized its status, total weight, final shipment
\* cost and calculator url never change again.
C9_FinalizedIsFinal ==
    [][\A id \in OrderIds :
          orders[id].status = Finalized =>
             /\ orders'[id].status = Finalized
             /\ orders'[id].totalWeight = orders[id].totalWeight
             /\ orders'[id].finalShipmentCost = orders[id].finalShipmentCost
             /\ orders'[id].calculatorResultUrl
                    = orders[id].calculatorResultUrl]_vars

\* C10: in every state an order has a host id iff it is confirmed or
\* finalized.
C10_HostIffConfirmed ==
    \A id \in OrderIds :
        orders[id].hostId # NoHost
            <=> orders[id].status \in {Confirmed, Finalized}

C10_Witness ==
    \E id \in OrderIds, other \in OrderIds, a \in 1..MaxAttempts :
        /\ orders[id].status = Finalized
        /\ orders[id].hostId \in HostIds
        /\ orders[other].status = Drafted
        /\ attempts[a].result = "ok"

(***************************************************************************)
(* Rejections of a confirmation attempt.                                   *)
(***************************************************************************)
\* attempt a runs matchOrderAndCheckout up to the match in this step
MatchStep(a) == attempts[a].pc = "idle" /\ attempts'[a].pc # "idle"

\* the order attempt a is about, known and served on its route
Serviceable(orderId) ==
    /\ orderId \in OrderIds
    /\ CheckServiceAvailability(orders[orderId].originCountry,
                                orders[orderId].destinationCountry)

\* attempt a left nothing behind: no match written or pending, no match id,
\* no checkout session
NothingRecorded(a) ==
    /\ attempts'[a].pc = "done"
    /\ attempts'[a].matchId = NoId
    /\ attempts'[a].pending = {}
    /\ matches' = matches
    /\ everRecorded' = everRecorded
    /\ sessions' = sessions
    /\ \A s \in sessions' : s.id # a

\* C11: an attempt for a serviceable order with no available host in its
\* origin country fails with NoHostAvailable, emits
\* order.rejected.host_availability and nothing else, leaves the order as it
\* was (Drafted), and records no match and requests no checkout session
C11_NoHostRejected ==
    [][\A a \in 1..MaxAttempts :
          LET orderId == attempts'[a].orderId
          IN  (/\ MatchStep(a)
               /\ Serviceable(orderId)
               /\ MatchHost(orders[orderId].originCountry) = {})
              => /\ attempts'[a].result = "NoHostAvailable"
                 /\ attempts'[a].events =
                        <<"order.rejected.host_availability">>
                 /\ orders' = orders
                 /\ orders'[orderId].status = Drafted
                 /\ NothingRecorded(a)]_vars

C11_Witness ==
    \E a \in 1..MaxAttempts :
        /\ attempts[a].result = "NoHostAvailable"
        /\ attempts[a].orderId = "o2"
        /\ orders["o2"].originCountry = "CA"
        /\ orders["o2"].status = Drafted

\* C12: an attempt for an order whose route is not served fails with
\* ServiceUnavailable, emits order.rejected.service_availability and not
\* order.rejected.host_availability, never invokes matchHost, leaves the
\* order as it was, and records no match and requests no checkout session
C12_UnservedRejected ==
    [][\A a \in 1..MaxAttempts :
          LET orderId == attempts'[a].orderId
          IN  (/\ MatchStep(a)
               /\ orderId \in OrderIds
               /\ ~Serviceable(orderId))
              => /\ attempts'[a].result = "ServiceUnavailable"
                 /\ attempts'[a].events =
                        <<"order.rejected.service_availability">>
                 /\ ~attempts'[a].matchHostCalled
                 /\ orders' = orders
                 /\ NothingRecorded(a)]_vars

C12_Witness ==
    \E a \in 1..MaxAttempts :
        /\ attempts[a].result = "ServiceUnavailable"
        /\ attempts[a].orderId = "o2"
        /\ orders["o2"].destinationCountry = "XX"
        /\ MatchHost(orders["o2"].originCountry) # {}

(***************************************************************************)
(* The order during the matching phase.                                    *)
(***************************************************************************)
\* delivery d consumes a live match of the order in this step
ConsumesMatchOf(d, orderId) ==
    /\ deliveries[d].pc = "found"
    /\ deliveries'[d].consume = "ok"
    /\ \E m \in deliveries[d].found : m.orderId = orderId

\* C13: a confirmation attempt does not write the order, in none of its
\* steps up to and including its successful return; a Drafted order without
\* a host changes only in the step in which a confirmation webhook consumes
\* a match of that order
C13_ConfirmLeavesOrder ==
    [][/\ attempts' # attempts => orders' = orders
       /\ \A orderId \in OrderIds :
             (/\ orders[orderId].status = Drafted
              /\ orders[orderId].hostId = NoHost
              /\ orders'[orderId] # orders[orderId])
             => \E d \in 1..MaxDeliveries : ConsumesMatchOf(d, orderId)]_vars

C13_Witness ==
    \E a \in 1..MaxAttempts :
        /\ attempts[a].result = "ok"
        /\ \E m \in matches : m.id = attempts[a].matchId
        /\ orders[attempts[a].orderId].status = Drafted
        /\ orders[attempts[a].orderId].hostId = NoHost
        /\ \E s \in sessions : s.id = a

(***************************************************************************)
(* The dispatch of the webhook.                                            *)
(***************************************************************************)
\* C14: a delivery with fee type Service invokes the confirm-order handler
\* and no other, one with fee type Shipment the pay-shipment handler and no
\* other, and one with any other or no fee type invokes no handler and
\* fails with UnrecognizedWebhookPayload
C14_DispatchByFeeType ==
    \A d \in 1..MaxDeliveries :
        LET delivery == deliveries[d]
            feeType == delivery.metadata.feeType
            confirmOrderRan ==
                delivery.pc # "done" \/ delivery.consume # "none"
        IN  delivery.pc # "idle" =>
              /\ feeType = FeeService =>
                    /\ delivery.handler = "confirmOrder"
                    /\ confirmOrderRan
                    /\ delivery.result # "UnrecognizedWebhookPayload"
              /\ feeType = FeeShipment =>
                    /\ delivery.handler = "payShipment"
                    /\ ~confirmOrderRan
                    /\ delivery.result = "ok"
              /\ feeType \notin {FeeService, FeeShipment} =>
                    /\ delivery.handler = "none"
                    /\ ~confirmOrderRan
                    /\ delivery.result = "UnrecognizedWebhookPayload"

C14_Witness ==
    \E d1, d2 \in 1..MaxDeliveries :
        /\ deliveries[d1].metadata.feeType = FeeShipment
        /\ deliveries[d1].handler = "payShipment"
        /\ deliveries[d2].metadata.feeType = NoFeeType
        /\ deliveries[d2].result = "UnrecognizedWebhookPayload"
        /\ deliveries[d2].metadata \in {s.metadata : s \in sessions}

(***************************************************************************)
(* The match ledger.                                                       *)
(***************************************************************************)
\* the call a repository adapter answers in this step
LastCall == repoCalls'[Len(repoCalls')]

\* C15: the match id a successful recordMatch returns is fresh: it is not
\* the id of the order, and no earlier recordMatch returned it
C15_FreshMatchId ==
    \A i \in 1..Len(repoCalls) :
        (repoCalls[i].op = "recordMatch" /\ repoCalls[i].result = "ok")
        => /\ repoCalls[i].matchId # repoCalls[i].orderId
           /\ \A j \in 1..(i - 1) :
                 repoCalls[j].op = "recordMatch"
                 => repoCalls[j].matchId # repoCalls[i].matchId

\* C16: the ledger never holds two matches with the same id, and a
\* recordMatch on an id that has a live match fails with DuplicateMatch and
\* leaves the ledger, the live match included, as it was
C16_NoDuplicateMatch ==
    [][/\ \A m1, m2 \in matches' : m1.id = m2.id => m1 = m2
       /\ (/\ repoCalls' # repoCalls
           /\ LastCall.op = "recordMatch"
           /\ FindOne(matches, MatchToMongoDocument(LastCall.orderId,
                                                    LastCall.hostId).id) # {})
          => /\ LastCall.result = "DuplicateMatch"
             /\ matches' = matches]_vars

C16_Witness ==
    \E i \in 1..Len(repoCalls) :
        /\ repoCalls[i].op = "recordMatch"
        /\ repoCalls[i].result = "DuplicateMatch"
        /\ \E m \in matches : /\ m.orderId = repoCalls[i].orderId
                               /\ m.hostId # repoCalls[i].hostId

\* C17: retrieveAndDeleteMatch on an id that has no live match fails with
\* MatchNotFound and leaves the ledger as it was
C17_ConsumeOfMissingMatch ==
    [][(/\ repoCalls' # repoCalls
        /\ LastCall.op = "retrieveAndDeleteMatch"
        /\ FindOne(matches, LastCall.matchId) = {})
       => /\ LastCall.result = "MatchNotFound"
          /\ matches' = matches]_vars

(***************************************************************************)
(* The customer's list of orders.                                          *)
(***************************************************************************)
\* the elements of a list
Range(list) == {list[i] : i \in 1..Len(list)}

\* C18: after an order was linked to an existing customer with addOrder or
\* addOrderToCustomer and the call succeeded, findCustomer returns a list of
\* order ids that contains the id of that order
C18_LinkedOrderIsListed ==
    [][(/\ repoCalls' # repoCalls
        /\ LastCall.op \in {"addOrder", "addOrderToCustomer"}
        /\ LastCall.result = "ok"
        /\ LastCall.customerId \in CustomerIds)
       => LastCall.orderId \in
             Range(FindCustomer(customers',
                                LastCall.customerId).customer.orderIds)]_vars

(***************************************************************************)
(* Hosts and order status in the matching phase.                           *)
(***************************************************************************)
\* C19: a host is never double-booked: no two live matches of different
\* orders name the same host
C19_HostNotDoubleBooked ==
    \A m1, m2 \in matches :
        m1.orderId # m2.orderId => m1.hostId # m2.hostId

\* C20: the orchestrator records a match, and goes on to request a checkout
\* session, only for an order that is Drafted
C20_MatchOnlyForDrafted ==
    [][\A a \in 1..MaxAttempts :
          (MatchStep(a) /\ attempts'[a].pending # {})
          => orders[attempts'[a].orderId].status = Drafted]_vars

(***************************************************************************)
(* The finalizer under concurrency.                                        *)
(***************************************************************************)
\* the step in which the update of call c is applied
UpdateStep(c) == calls[c].pc = "checked" /\ calls'[c].pc = "done"

\* C21: the update of a finalize sets an order Finalized only if, at the
\* moment it is applied, the order is Confirmed, assigned to the calling
\* host and has every item complete
C21_FinalizeIsAtomic ==
    [][\A c \in 1..MaxCalls :
          (UpdateStep(c) /\ orders'[calls[c].req.orderId].status = Finalized)
          => /\ Finalizable(calls[c].req)
             /\ IncompleteItemIds(orders[calls[c].req.orderId]) = {}]_vars

(***************************************************************************)
(* The events of a confirmation attempt.                                   *)
(***************************************************************************)
\* C22: order.awaiting_payment is emitted only by an attempt whose
\* transaction has committed, and exactly once by an attempt that succeeded
C22_AwaitingPaymentAfterCommit ==
    \A a \in 1..MaxAttempts :
        LET emitted == Occurrences(attempts[a].events, "order.awaiting_payment")
        IN  /\ emitted > 0 => attempts[a].result = "ok"
            /\ attempts[a].result = "ok" => emitted = 1

(***************************************************************************)
(* What a finalize writes.                                                 *)
(***************************************************************************)
\* the fields of an order a finalize may write
FinalizedFields ==
    {"status", "totalWeight", "finalShipmentCost", "calculatorResultUrl"}

\* C23: the update of a successful finalize sets the status of its order to
\* Finalized and its total weight and final shipment cost to the submitted
\* ones, sets the calculator url when one is submitted and leaves it as it
\* was otherwise, and changes no other field of that order (host, items,
\* customer) and no other order
C23_FinalizeFrame ==
    [][\A c \in 1..MaxCalls :
          (UpdateStep(c) /\ calls'[c].result = "ok") =>
             LET id == calls[c].req.orderId
                 info == calls[c].req.info
             IN  /\ orders'[id].status = Finalized
                 /\ orders'[id].totalWeight = info.totalWeight
                 /\ orders'[id].finalShipmentCost = info.shipmentCost
                 /\ orders'[id].calculatorResultUrl =
                        IF Truthy(info.calculatorResultUrl)
                        THEN info.calculatorResultUrl
                        ELSE orders[id].calculatorResultUrl
                 /\ \A f \in DOMAIN orders[id] \ FinalizedFields :
                        orders'[id][f] = orders[id][f]
                 /\ DOMAIN orders'[id] = DOMAIN orders[id]
                 /\ \A other \in OrderIds \ {id} :
                        orders'[other] = orders[other]]_vars

C23_Witness ==
    \E c1, c2 \in 1..MaxCalls :
        /\ c1 # c2
        /\ calls[c1].result = "ok"
        /\ calls[c2].result = "ok"
        /\ calls[c1].req.orderId = calls[c2].req.orderId
        /\ Truthy(calls[c1].req.info.calculatorResultUrl)
        /\ ~Truthy(calls[c2].req.info.calculatorResultUrl)
        /\ LET order == orders[calls[c1].req.orderId]
           IN  /\ order.calculatorResultUrl =
                      calls[c1].req.info.calculatorResultUrl
               /\ order.totalWeight = calls[c2].req.info.totalWeight
               /\ order.totalWeight # calls[c1].req.info.totalWeight
               /\ order.hostId = calls[c2].req.hostId
               /\ order.customerId = "c1"

(***************************************************************************)
(* Record, then consume.                                                   *)
(***************************************************************************)
\* the successful recordMatch calls that returned the id and were not
\* followed by a retrieveAndDeleteMatch of it
LiveRecordings(matchId) ==
    {i \in 1..Len(repoCalls) :
        /\ repoCalls[i].op = "recordMatch"
        /\ repoCalls[i].result = "ok"
        /\ repoCalls[i].matchId = matchId
        /\ \A j \in (i + 1)..Len(repoCalls) :
              ~(/\ repoCalls[j].op = "retrieveAndDeleteMatch"
                /\ repoCalls[j].matchId = matchId)}

\* C24: a successful recordMatch adds one record under an id that had none,
\* and a retrieveAndDeleteMatch of the id it returned yields the recorded
\* order and host and removes that record alone, so that the two together
\* leave the ledger as it was before the recordMatch
C24_RecordThenConsume ==
    [][repoCalls' # repoCalls =>
          /\ (LastCall.op = "recordMatch" /\ LastCall.result = "ok") =>
                /\ FindOne(matches, LastCall.matchId) = {}
                /\ \E m \in matches' :
                      /\ m.id = LastCall.matchId
                      /\ m.orderId = LastCall.orderId
                      /\ m.hostId = LastCall.hostId
                      /\ matches' \ {m} = matches
          /\ \A i \in LiveRecordings(LastCall.matchId) :
                LastCall.op = "retrieveAndDeleteMatch" =>
                   /\ LastCall.result = "ok"
                   /\ LastCall.orderId = repoCalls[i].orderId
                   /\ LastCall.hostId = repoCalls[i].hostId
                   /\ \E m \in matches :
                         /\ m.id = LastCall.matchId
                         /\ m \notin matches'
                         /\ matches' \cup {m} = matches]_vars

C24_Witness ==
    \E i, j \in 1..Len(repoCalls) :
        /\ i < j
        /\ repoCalls[i].op = "recordMatch"
        /\ repoCalls[i].result = "ok"
        /\ repoCalls[j].op = "retrieveAndDeleteMatch"
        /\ repoCalls[j].matchId = repoCalls[i].matchId
        /\ repoCalls[j].result = "ok"
        /\ repoCalls[j].hostId = repoCalls[i].hostId
        /\ matches # {}
        /\ FindOne(matches, repoCalls[i].matchId) = {}

LiveMatchesOf(ledger, orderId) == {m \in ledger : m.orderId = orderId}

C27_EmptyOrderFinalizes ==
    [][\A c \in 1..MaxCalls :
          LET req == calls'[c].req
          IN  /\ (/\ CheckStep(c)
                   /\ Finalizable(req)
                   /\ orders[req.orderId].items = <<>>)
                  => /\ calls'[c].pc = "checked"
                     /\ calls'[c].result = "none"
                     /\ calls'[c].notFinalizedItemIds = <<>>
              /\ (calls[c].pc = "checked" /\ orders[req.orderId].items = <<>>)
                  => ENABLED FinalizeUpdate(c)
              /\ (UpdateStep(c) /\ orders[req.orderId].items = <<>>)
                  => /\ calls'[c].result = "ok"
                     /\ orders'[req.orderId].status = Finalized
                     /\ orders'[req.orderId].totalWeight
                            = req.info.totalWeight
                     /\ orders'[req.orderId].finalShipmentCost
                            = req.info.shipmentCost]_vars

C27_Witness ==
    \E c \in 1..MaxCalls :
        /\ calls[c].result = "ok"
        /\ orders[calls[c].req.orderId].items = <<>>
        /\ orders[calls[c].req.orderId].status = Finalized
        /\ orders[calls[c].req.orderId].hostId = calls[c].req.hostId
        /\ orders[calls[c].req.orderId].totalWeight
               = calls[c].req.info.totalWeight
        /\ \A c2 \in 1..MaxCalls : c2 # c => calls[c2].pc = "idle"
====
